---- MODULE Spec2Model ----
(***************************************************************************)
(* Speech -> scene prompt -> remote video provider -> local text video ->  *)
(* text record.  A model of the two entry points of the repository:        *)
(*   "main"         src/main.py               SceneGeneratorApp.run        *)
(*   "orchestrator" src/agents/orchestrator.py Orchestrator.run            *)
(* Strings are sequences of one-character strings, so that strip, lower    *)
(* and the string formatting of the code are computed, not assumed.        *)
(***************************************************************************)
EXTENDS Integers, Sequences, FiniteSets, TLC

(* ------------------------------ bounds --------------------------------- *)
\* number of utterances the listening loop processes in one run of the model
MaxRequests == 2
\* the wall clock (seconds, as formatted by make_filename) runs from 0 to MaxClock
MaxClock == 1

(* ------------------------- program constants --------------------------- *)
DEFAULT_DURATION == 10
FPS == 24
\* range(60) of the polling loop
POLL_BUDGET == 60

(* ------------------------------ strings -------------------------------- *)
RECURSIVE lstrip(_)
lstrip(s) ==
    IF s = <<>> THEN s
    ELSE IF Head(s) = " " THEN lstrip(Tail(s)) ELSE s

RECURSIVE rstrip(_)
rstrip(s) ==
    IF s = <<>> THEN s
    ELSE IF s[Len(s)] = " " THEN rstrip(SubSeq(s, 1, Len(s) - 1)) ELSE s

\* str.strip()
strip(s) == rstrip(lstrip(s))

\* str.lower() on the characters the utterances are made of
lowerChar(c) ==
    CASE c = "E" -> "e"
      [] c = "S" -> "s"
      [] OTHER -> c

lower(s) == [i \in 1..Len(s) |-> lowerChar(s[i])]

\* s.endswith(t)
endswith(s, t) ==
    /\ Len(t) <= Len(s)
    /\ SubSeq(s, Len(s) - Len(t) + 1, Len(s)) = t

\* the keywords that end the listening loop
ExitKeywords ==
    { <<"e","x","i","t">>, <<"q","u","i","t">>, <<"s","t","o","p">> }

\* what the speech recognizer may return for one utterance
Utterances ==
    { <<"h","i">>, <<" ","h","i"," ">>, <<"E","x","i","t">>, <<"s","t","o","p">> }

(* --------------------------- prompt building --------------------------- *)
\* the fixed part of the template that precedes the quoted user text
TemplateHead == <<"A cinematic VR scene ... Based on: ", "\"">>

cinematic_template(user_text) == TemplateHead \o user_text \o <<"\"">>

\* the texts a rewriting answer may carry
GeminiTexts == { <<"b">>, <<" ","b">>, <<" ">>, <<>> }

\* the shapes of the answer of client.generate_text (None when the client has
\* no generate_text; "raise" when the call raises)
GeminiResponses ==
    { [kind |-> k, key |-> "", val |-> <<>>] : k \in {"none", "raise", "other", "obj_text_none", "dict_empty_list"} }
    \cup { [kind |-> k, key |-> "", val |-> v] : k \in {"str", "obj_text"}, v \in GeminiTexts }
    \cup { [kind |-> "dict_str", key |-> k, val |-> v] :
             k \in {"output", "text", "content", "unknown"}, v \in GeminiTexts }
    \cup { [kind |-> k, key |-> c, val |-> v] :
             k \in {"dict_list_str", "dict_list_dict_text", "dict_list_dict_other"},
             c \in {"candidates", "choices"}, v \in GeminiTexts }

\* GeminiHelper.build_cinematic_prompt
build_cinematic_prompt(available, resp, user_text) ==
    IF ~available THEN cinematic_template(user_text)
    ELSE CASE resp.kind = "raise" -> cinematic_template(user_text)
           [] resp.kind = "none" -> cinematic_template(user_text)
           [] resp.kind = "str" -> strip(resp.val)
           [] resp.kind = "obj_text" -> strip(resp.val)
           \* resp.text is None: .strip() raises AttributeError, caught
           [] resp.kind = "obj_text_none" -> cinematic_template(user_text)
           [] resp.kind = "dict_str" /\ resp.key \in {"output", "text", "content"} -> strip(resp.val)
           [] resp.kind = "dict_list_str" -> strip(resp.val)
           [] resp.kind = "dict_list_dict_text" -> strip(resp.val)
           [] OTHER -> cinematic_template(user_text)

(* ------------------------------- state --------------------------------- *)
VARIABLES
    entry,              \* which program runs: "main" or "orchestrator"
    PIKA_AVAILABLE,     \* PikaHelper.available = bool(PIKA_API_KEY)
    MOVIEPY_AVAILABLE,  \* import moviepy.editor succeeded
    PIL_AVAILABLE,      \* import PIL succeeded
    GEMINI_AVAILABLE,   \* self.gemini and self.gemini.available
    HF_KEY,             \* HUGGINGFACE_API_KEY is set
    pc,                 \* position of control
    req,                \* utterances taken up for generation so far
    now,                \* wall clock, in seconds
    heard,              \* how the last listen ended
    text,               \* the recognized text of the current request
    emotion,            \* the emotion label (orchestrator)
    scene_prompt,       \* the generation prompt
    video_path,         \* what the provider path returned (NoPath for None)
    attempt,            \* where the provider attempt stands / how it ended
    submits,            \* POST requests sent to the provider for this request
    polls,              \* passes of the polling loop made so far (the loop's counter)
    downloads,          \* download GETs sent for this request
    last_poll,          \* the answer of the last poll of this attempt
    refused_status,     \* the status code the submit was refused for, or 0
    rendered,           \* how the fallback renderer ended for this request, or "no"
    wrote,              \* how the write of the text record ended for this request, or "no"
    log_before,         \* the text record as it was when this request started
    outcome,            \* the outcome of the request
    artifact,           \* the artifact path of the request (NoPath for null)
    log,                \* recognized_text.txt, a sequence of lines
    files,              \* the files written, name -> content
    crashed             \* the error that escaped the entry point, or "none"

config == <<entry, PIKA_AVAILABLE, MOVIEPY_AVAILABLE, PIL_AVAILABLE, GEMINI_AVAILABLE, HF_KEY>>
request == <<text, emotion, scene_prompt, video_path, attempt, submits, polls, downloads,
             last_poll, refused_status, rendered, wrote, log_before, outcome, artifact>>
vars == <<config, pc, req, now, heard, request, log, files, crashed>>

NoPath == <<>>
NoText == <<>>

\* datetime.now().strftime("%Y%m%d_%H%M%S") and str(datetime.now()): one-second resolution
timestamp(t) == ToString(t)

\* make_filename(prefix, ext="mp4")
make_filename(prefix, t) == <<prefix, "_", timestamp(t), ".mp4">>

\* os.path.join("generated_videos", "session.mp4")
session_path == <<"generated_videos/", "session", ".mp4">>

\* open(path, "wb") and the writes that follow: the file is created or replaced
put(fs, name, content) ==
    [n \in (DOMAIN fs) \cup {name} |-> IF n = name THEN content ELSE fs[n]]

\* mutant: one second of frames, whatever the duration
num_frames_one_second(duration, fps) == fps

\* num_frames = int(duration * fps)
num_frames(duration, fps) == duration * fps

\* f"{datetime.now()}: {text}\n"
log_line(t, recognized) == <<timestamp(t), ":", " ">> \o recognized \o <<"\n">>

Outcomes == {"REMOTE_VIDEO", "LOCAL_VIDEO", "TEXT_FALLBACK"}

Init ==
    /\ entry \in {"main", "orchestrator"}
    /\ PIKA_AVAILABLE \in (IF entry = "main" THEN BOOLEAN ELSE {FALSE})
    /\ MOVIEPY_AVAILABLE \in (IF entry = "main" THEN BOOLEAN ELSE {FALSE})
    /\ PIL_AVAILABLE \in (IF entry = "main" THEN BOOLEAN ELSE {FALSE})
    /\ GEMINI_AVAILABLE \in (IF entry = "main" THEN BOOLEAN ELSE {FALSE})
    /\ HF_KEY \in (IF entry = "main" THEN {FALSE} ELSE BOOLEAN)
    /\ pc = (IF entry = "main" THEN "listen" ELSE "o_listen")
    /\ req = 0
    /\ now = 0
    /\ heard = "none"
    /\ text = NoText
    /\ emotion = "none"
    /\ scene_prompt = NoText
    /\ video_path = NoPath
    /\ attempt = "none"
    /\ submits = 0
    /\ polls = 0
    /\ downloads = 0
    /\ last_poll = "none"
    /\ refused_status = 0
    /\ rendered = "no"
    /\ wrote = "no"
    /\ log_before = <<>>
    /\ outcome = "NONE"
    /\ artifact = NoPath
    /\ log = <<>>
    /\ files = <<>>
    /\ crashed = "none"

(* ===================== src/main.py: SceneGeneratorApp ================== *)

\* how recognizer.listen / recognize_google may end without a text
ListenFaults == {"wait_timeout", "unknown_value", "request_error", "error"}

\* mutant: the loop lacks its last handler, "except Exception"
caught_by_loop_narrow(error) ==
    error \in {"wait_timeout", "unknown_value", "request_error"}

\* the except clauses of the loop that continue it; "except Exception" takes the rest
caught_by_loop(error) ==
    error \in {"wait_timeout", "unknown_value", "request_error", "error"}

\* the per-request bookkeeping at the start of a request
StartRequest(recognized) ==
    /\ text' = recognized
    /\ req' = req + 1
    /\ scene_prompt' = NoText
    /\ video_path' = NoPath
    /\ attempt' = "none"
    /\ submits' = 0
    /\ polls' = 0
    /\ downloads' = 0
    /\ last_poll' = "none"
    /\ refused_status' = 0
    /\ rendered' = "no"
    /\ wrote' = "no"
    /\ log_before' = log
    /\ outcome' = "NONE"
    /\ artifact' = NoPath

\* mutant: the keyword is compared as it was spoken
is_exit_case_sensitive(recognized) == recognized \in ExitKeywords

\* text.lower() in ("exit", "quit", "stop")
is_exit(recognized) == lower(recognized) \in ExitKeywords

\* one pass of the listening loop up to the prompt: listen, recognize, exit check
Listen ==
    /\ entry = "main"
    /\ pc = "listen"
    /\ req < MaxRequests
    /\ \E tick \in {0, 1} :
         /\ now + tick <= MaxClock
         /\ now' = now + tick
    /\ \/ \E fault \in ListenFaults :
            \* except sr.WaitTimeoutError / UnknownValueError / RequestError / Exception
            /\ heard' = fault
            /\ IF caught_by_loop(fault)
               THEN pc' = "listen" /\ UNCHANGED crashed
               ELSE pc' = "crashed" /\ crashed' = "listen"
            /\ UNCHANGED <<req, request>>
       \/ \* except KeyboardInterrupt: break
          /\ heard' = "interrupt"
          /\ pc' = "exited"
          /\ UNCHANGED <<req, request, crashed>>
       \/ \E raw \in Utterances :
            LET recognized == strip(raw) IN
            IF is_exit(recognized)
            THEN /\ heard' = "exit"
                 /\ pc' = "exited"
                 /\ text' = recognized
                 /\ UNCHANGED <<crashed, req, emotion, scene_prompt, video_path, attempt, submits,
                                polls, downloads, last_poll, refused_status, rendered, wrote, log_before, outcome, artifact>>
            ELSE /\ heard' = "text"
                 /\ pc' = "prompt"
                 /\ StartRequest(recognized)
                 /\ UNCHANGED <<emotion, crashed>>
    /\ UNCHANGED <<config, log, files>>

\* mutant: the provider is passed over although its key is set
first_tier_local(pika) == "select"

\* "if self.pika and self.pika.available" decides the first tier
first_tier(pika) == IF pika THEN "submit" ELSE "select"

\* the prompt is built, by Gemini or by the template; then the provider is chosen
BuildPrompt ==
    /\ pc = "prompt"
    /\ \E resp \in GeminiResponses :
         scene_prompt' = IF GEMINI_AVAILABLE
                         THEN build_cinematic_prompt(TRUE, resp, text)
                         ELSE cinematic_template(text)
    /\ video_path' = NoPath
    /\ pc' = first_tier(PIKA_AVAILABLE)
    /\ UNCHANGED <<config, req, now, heard, text, emotion, attempt, submits, polls,
                   downloads, last_poll, refused_status, rendered, wrote, log_before, outcome, artifact, log, files, crashed>>

\* mutant: a failed call is answered by calling the provider again
ProviderGaveUp_retry(how) ==
    /\ attempt' = how
    /\ video_path' = NoPath
    /\ polls' = 0
    /\ pc' = "submit"

\* generate_video returns None; its frame is gone, and the loop counter with it
ProviderGaveUp(how) ==
    /\ attempt' = how
    /\ video_path' = NoPath
    /\ polls' = 0
    /\ pc' = "select"

\* the requests.RequestException a call may raise, as the message of line 228 names it
RequestExceptions == {"request_error", "request_timeout"}

\* resp.status_code in (200, 201)
submit_accepted(status) == status \in {200, 201}

SubmitStatuses == {200, 201, 202, 404, 500}

\* the keys a decoded answer may carry ("result" stands for a dict holding video_url)
SubmitShapes == SUBSET {"video_url", "result", "job_id"}

\* mutant: the job id is looked for first
submit_shape_job_first(keys) ==
    IF "job_id" \in keys THEN "poll"
    ELSE IF "video_url" \in keys THEN "download"
    ELSE IF "result" \in keys THEN "download"
    ELSE "unrecognized"

\* the order in which the shapes of a submit answer are tried
submit_shape(keys) ==
    IF "video_url" \in keys THEN "download"
    ELSE IF "result" \in keys THEN "download"
    ELSE IF "job_id" \in keys THEN "poll"
    ELSE "unrecognized"

\* requests.post(endpoint, ..., timeout=300) and the reading of its answer
Submit ==
    /\ pc = "submit"
    /\ submits' = submits + 1
    /\ \/ \* requests.RequestException: a connection error or a timeout
          /\ \E e \in RequestExceptions : ProviderGaveUp(e)
          /\ UNCHANGED refused_status
       \/ \E status \in SubmitStatuses :
            IF ~submit_accepted(status)
            THEN \* "Pika API responded with status {resp.status_code}"
                 /\ ProviderGaveUp("bad_status")
                 /\ refused_status' = status
            ELSE /\ UNCHANGED refused_status
                 /\ \/ \* resp.json() raises, or the decoded body cannot be searched for keys
                       ProviderGaveUp("unexpected_error")
                    \/ \E keys \in SubmitShapes :
                         CASE submit_shape(keys) = "download" ->
                                /\ pc' = "download"
                                /\ attempt' = "generated"
                                /\ UNCHANGED <<video_path, polls>>
                           [] submit_shape(keys) = "poll" ->
                                /\ pc' = "poll"
                                /\ attempt' = "polling"
                                /\ polls' = 0
                                /\ UNCHANGED video_path
                           [] OTHER -> ProviderGaveUp("unrecognized")
    /\ UNCHANGED <<config, req, now, heard, text, emotion, scene_prompt, downloads,
                   last_poll, rendered, wrote, log_before, outcome, artifact, log, files,
                   crashed>>

\* for attempt in range(60): the loop goes on while polls were made fewer than 60 times
poll_again(n) == n < POLL_BUDGET

\* what a status GET may bring: an exception of requests, a status code other than 200,
\* a body that is no JSON object, or a JSON object with its "status" and maybe a
\* "video_url" ("pending" stands for every status the loop does not name)
PollAnswers ==
    RequestExceptions
    \cup {"non_200", "invalid_json", "pending", "succeeded_no_url", "succeeded", "failed", "error"}

\* mutant: a status code other than 200 ends the attempt, as it does on submit
poll_verdict_strict(answer) ==
    CASE answer \in RequestExceptions -> answer
      [] answer = "non_200" -> "bad_status"
      [] answer = "invalid_json" -> "unexpected_error"
      [] answer = "succeeded" -> "download"
      [] answer \in {"failed", "error"} -> "job_failed"
      [] OTHER -> "continue"

\* mutant: the status alone decides, with or without a video_url
poll_verdict_status_only(answer) ==
    CASE answer \in RequestExceptions -> answer
      [] answer = "non_200" -> "continue"
      [] answer = "invalid_json" -> "unexpected_error"
      [] answer \in {"succeeded", "succeeded_no_url"} -> "download"
      [] answer \in {"failed", "error"} -> "job_failed"
      [] OTHER -> "continue"

\* what the body of the polling loop makes of an answer
poll_verdict(answer) ==
    CASE answer \in RequestExceptions -> answer
      [] answer = "non_200" -> "continue"
      [] answer = "invalid_json" -> "unexpected_error"
      [] answer = "succeeded" -> "download"
      [] answer \in {"failed", "error"} -> "job_failed"
      [] OTHER -> "continue"

\* mutant: the loop has no exit of its own once the budget is spent
poll_continue_stuck(n) ==
    /\ pc' = "poll"
    /\ polls' = n
    /\ UNCHANGED <<attempt, video_path>>

\* after the n-th pass the loop sleeps 3 s and polls again, or is left: "Pika job
\* timed out"
poll_continue(n) ==
    IF poll_again(n)
    THEN /\ pc' = "poll"
         /\ polls' = n
         /\ UNCHANGED <<attempt, video_path>>
    ELSE /\ ProviderGaveUp("timed_out")

\* one pass of the polling loop: requests.get(status_url, ..., timeout=30)
Poll ==
    /\ pc = "poll"
    /\ poll_again(polls)
    /\ \E answer \in PollAnswers :
         /\ last_poll' = answer
         /\ CASE poll_verdict(answer) = "continue" -> poll_continue(polls + 1)
              [] poll_verdict(answer) = "download" ->
                   /\ pc' = "download"
                   /\ attempt' = "generated"
                   /\ polls' = polls + 1
                   /\ UNCHANGED video_path
              [] OTHER -> ProviderGaveUp(poll_verdict(answer))
    /\ UNCHANGED <<config, req, now, heard, text, emotion, scene_prompt, submits, downloads,
                   refused_status, rendered, wrote, log_before, outcome, artifact, log, files,
                   crashed>>

RemoteContent == [src |-> "pika", frames |-> 0, complete |-> TRUE]
PartialContent == [src |-> "pika", frames |-> 0, complete |-> FALSE]

\* mutant: a download that failed still hands its path back
download_failed_with_path(out_path, fs) ==
    /\ attempt' = "download_failed"
    /\ video_path' = out_path
    /\ polls' = 0
    /\ pc' = "select"
    /\ files' = fs

\* _download_video returns None (status not 200, or "except Exception"), and
\* generate_video returns that; fs is what is on disk by then
download_failed(out_path, fs) ==
    /\ ProviderGaveUp("download_failed")
    /\ files' = fs

\* _download_video: requests.get(url, stream=True, timeout=120), then the copy to disk;
\* generate_video returns what it returns
Download ==
    /\ pc = "download"
    /\ downloads' = downloads + 1
    /\ LET out_path == make_filename("pika_scene", now) IN
       \/ \* requests.get raises, the status is not 200, or open() fails
          download_failed(out_path, files)
       \/ \* iter_content or fh.write raises after the file was opened
          download_failed(out_path, put(files, out_path, PartialContent))
       \/ \* the copy completes: the path is returned
          /\ files' = put(files, out_path, RemoteContent)
          /\ video_path' = out_path
          /\ attempt' = "succeeded"
          /\ polls' = 0
          /\ pc' = "select"
    /\ UNCHANGED <<config, req, now, heard, text, emotion, scene_prompt, submits,
                   last_poll, refused_status, rendered, wrote, log_before, outcome, artifact, log, crashed>>

\* "if video_path": the provider's video is the result, or the fallback renderer is next
SelectTier ==
    /\ pc = "select"
    /\ IF video_path /= NoPath
       THEN /\ outcome' = "REMOTE_VIDEO"
            /\ artifact' = video_path
            /\ pc' = "done"
       ELSE /\ pc' = "fallback"
            /\ UNCHANGED <<outcome, artifact>>
    /\ last_poll' = "none"
    /\ refused_status' = 0
    /\ UNCHANGED <<config, req, now, heard, text, emotion, scene_prompt, video_path, attempt,
                   submits, polls, downloads, rendered, wrote, log_before, log, files,
                   crashed>>

\* mutant: only MoviePy is tested before the work begins
can_render_moviepy_only(moviepy, pil) == moviepy

\* the capability checks at the head of render_text_video_with_pil
can_render(moviepy, pil) == moviepy /\ pil

LocalContent(n) == [src |-> "local", frames |-> n, complete |-> TRUE]
BrokenContent == [src |-> "local", frames |-> 0, complete |-> FALSE]

\* the request falls to the text record: "Fallback video rendering failed"
RenderFailed(why) ==
    /\ rendered' = why
    /\ outcome' = "TEXT_FALLBACK"
    /\ pc' = "persist"
    /\ UNCHANGED artifact

\* out = make_filename("scene"); render_text_video_with_pil(scene_prompt, out, ...)
Render ==
    /\ pc = "fallback"
    /\ LET out == make_filename("scene", now) IN
       IF ~can_render(MOVIEPY_AVAILABLE, PIL_AVAILABLE)
       THEN \* return False before any work
            /\ RenderFailed("unavailable")
            /\ UNCHANGED files
       ELSE \/ \* return True: "Fallback video saved"
               /\ rendered' = "ok"
               /\ files' = put(files, out, LocalContent(num_frames(DEFAULT_DURATION, FPS)))
               /\ outcome' = "LOCAL_VIDEO"
               /\ artifact' = out
               /\ pc' = "done"
            \/ \* the frame building raises (font, textsize, memory): return False
               /\ RenderFailed("raised")
               /\ UNCHANGED files
            \/ \* write_videofile raises after it began to write: return False
               /\ RenderFailed("raised")
               /\ files' = put(files, out, BrokenContent)
    /\ UNCHANGED <<config, req, now, heard, text, emotion, scene_prompt, video_path, attempt,
                   submits, polls, downloads, last_poll, refused_status, wrote, log_before, log, crashed>>

\* mutant: the prompt shown on the video is what gets written
persisted_prompt(recognized, prompt) == prompt

\* what is written to recognized_text.txt: the recognized text
persisted(recognized, prompt) == recognized

\* mutant: the record is opened with "w" and holds the new line only
appended_truncating(record, line) == <<line>>

\* open("recognized_text.txt", "a") and fh.write(line): the line goes to the end
appended(record, line) == Append(record, line)

\* the append to recognized_text.txt; a failure is left to the handlers of the loop
PersistText ==
    /\ pc = "persist"
    /\ \/ /\ log' = appended(log, log_line(now, persisted(text, scene_prompt)))
          /\ wrote' = "ok"
          /\ pc' = "done"
          /\ UNCHANGED crashed
       \/ \* open() or write() raises OSError
          /\ UNCHANGED log
          /\ wrote' = "failed"
          /\ IF caught_by_loop("error")
             THEN pc' = "done" /\ UNCHANGED crashed
             ELSE pc' = "crashed" /\ crashed' = "persist"
    /\ UNCHANGED <<config, req, now, heard, text, emotion, scene_prompt, video_path, attempt,
                   submits, polls, downloads, last_poll, refused_status, rendered, log_before, outcome,
                   artifact, files>>

\* time.sleep(0.5) and back to the head of the loop
NextIteration ==
    /\ pc = "done"
    /\ pc' = "listen"
    /\ UNCHANGED <<config, req, now, heard, request, log, files, crashed>>

\* Ctrl-C while an utterance is processed or during the pause after it: no handler
\* below the loop takes KeyboardInterrupt ("except Exception" does not), so the
\* call under way is left where it is and "except KeyboardInterrupt: break" ends the
\* loop; a file that was being written stays as far as it got
Interrupt ==
    /\ entry = "main"
    /\ pc \in {"prompt", "submit", "poll", "download", "select", "fallback", "persist", "done"}
    /\ pc' = "exited"
    /\ polls' = 0
    /\ last_poll' = "none"
    /\ refused_status' = 0
    /\ \/ UNCHANGED files
       \/ /\ pc = "download"
          /\ files' = put(files, make_filename("pika_scene", now), PartialContent)
       \/ /\ pc = "fallback"
          /\ can_render(MOVIEPY_AVAILABLE, PIL_AVAILABLE)
          /\ files' = put(files, make_filename("scene", now), BrokenContent)
    /\ UNCHANGED <<config, req, now, heard, text, emotion, scene_prompt, video_path, attempt,
                   submits, downloads, rendered, wrote, log_before, outcome, artifact, log,
                   crashed>>

(* ============ src/agents: Orchestrator, SpeechAgent, VideoAgent ======== *)

\* what recognize_google may return to SpeechAgent.listen
OrchUtterances == { <<"h","i">>, <<"o","k">>, <<>> }

Emotions == {"fear", "joy", "neutral"}

\* an exception no handler takes: it leaves Orchestrator.run
Escapes(what) ==
    /\ pc' = "crashed"
    /\ crashed' = what

\* mutant: the result of listen() is used without the test
not_text_untested(result) == FALSE

\* "if not text": None and the empty string count as no speech
not_text(result) == result = NoText

\* text = self.speech_agent.listen(); if not text: return
OrchListen ==
    /\ entry = "orchestrator"
    /\ pc = "o_listen"
    /\ \/ \* recognizer.listen raises WaitTimeoutError outside the try of listen(),
          \* or recognize_google raises RequestError, which listen() does not catch
          /\ \E fault \in {"wait_timeout", "request_error"} : heard' = fault
          /\ Escapes("speech")
          /\ UNCHANGED <<req, request>>
       \/ \* UnknownValueError: listen() returns None
          /\ heard' = "unknown_value"
          /\ pc' = "o_returned"
          /\ UNCHANGED <<req, request, crashed>>
       \/ \E raw \in OrchUtterances :
            /\ heard' = "text"
            /\ IF not_text(raw)
               THEN /\ pc' = "o_returned"
                    /\ UNCHANGED <<req, request>>
               ELSE /\ pc' = "o_emotion"
                    /\ StartRequest(raw)
                    /\ UNCHANGED emotion
            /\ UNCHANGED crashed
    /\ UNCHANGED <<config, now, log, files>>

\* emotion = self.emotion_agent.detect_emotion(text); the coach answers
OrchEmotion ==
    /\ pc = "o_emotion"
    /\ \/ \* the classifier raises: nothing catches it
          /\ Escapes("emotion")
          /\ UNCHANGED <<emotion, scene_prompt>>
       \/ \E label \in Emotions :
            /\ emotion' = label
            /\ scene_prompt' = <<"A realistic VR scene where the user practices ">> \o text
                               \o <<", with emotional tone ", label>>
            /\ pc' = "o_generate"
            /\ UNCHANGED crashed
    /\ UNCHANGED <<config, req, now, heard, text, video_path, attempt, submits, polls,
                   downloads, last_poll, refused_status, rendered, wrote, log_before, outcome, artifact, log,
                   files>>

\* VideoAgent.generate returns None: Orchestrator.run ends without a video
OrchGaveUp(how) ==
    /\ attempt' = how
    /\ video_path' = NoPath
    /\ pc' = "o_returned"
    /\ UNCHANGED <<files, outcome, artifact, crashed>>

\* VideoAgent.generate: requests.post(url, headers, json) with no timeout, outside the try
OrchGenerate ==
    /\ pc = "o_generate"
    /\ submits' = submits + 1
    /\ \/ \* requests.post raises (connection error): it is called outside the try
          /\ attempt' = "request_error"
          /\ Escapes("provider")
          /\ UNCHANGED <<video_path, files, outcome, artifact, refused_status>>
       \/ \* the server never answers and no timeout was given
          /\ attempt' = "hung"
          /\ pc' = "o_hung"
          /\ UNCHANGED <<video_path, files, outcome, artifact, crashed, refused_status>>
       \/ \E status \in SubmitStatuses :
            IF status /= 200
            THEN \* "Error ({response.status_code})"
                 /\ OrchGaveUp("bad_status")
                 /\ refused_status' = status
            ELSE /\ UNCHANGED refused_status
                 /\ \/ \* response.json(), b64decode or the file write raises: caught
                       OrchGaveUp("unexpected_error")
                    \/ \* no "video" key
                       OrchGaveUp("unrecognized")
                    \/ \* "video" in data: decoded and written to session.mp4
                       /\ files' = put(files, session_path, RemoteContent)
                       /\ video_path' = session_path
                       /\ attempt' = "succeeded"
                       /\ outcome' = "REMOTE_VIDEO"
                       /\ artifact' = session_path
                       /\ pc' = "o_returned"
                       /\ UNCHANGED crashed
    /\ UNCHANGED <<config, req, now, heard, text, emotion, scene_prompt, polls, downloads,
                   last_poll, rendered, wrote, log_before, log>>

\* Orchestrator.run is called again (the program is started once more); the files of
\* the earlier run are still there
OrchRunAgain ==
    /\ entry = "orchestrator"
    /\ pc = "o_returned"
    /\ req < MaxRequests
    /\ pc' = "o_listen"
    /\ UNCHANGED <<config, req, now, heard, request, log, files, crashed>>

(* --------------------------- specifications ---------------------------- *)
Next ==
    \/ Listen
    \/ BuildPrompt
    \/ Submit
    \/ Poll
    \/ Download
    \/ SelectTier
    \/ Render
    \/ PersistText
    \/ NextIteration
    \/ Interrupt
    \/ OrchListen
    \/ OrchEmotion
    \/ OrchGenerate
    \/ OrchRunAgain

Spec == Init /\ [][Next]_vars

\* the program is sequential: once an utterance is recognized every step of its
\* processing is taken; the calls of main.py carry timeouts, so each one returns
Processing ==
    \/ BuildPrompt
    \/ Submit
    \/ Poll
    \/ Download
    \/ SelectTier
    \/ Render
    \/ PersistText

\* the steps of Orchestrator.run after the listen, likewise taken one after the other
OrchProcessing ==
    \/ OrchEmotion
    \/ OrchGenerate

FairSpec == Spec /\ WF_vars(Processing) /\ WF_vars(OrchProcessing)

(* ------------------------------- claims -------------------------------- *)

\* the positions of control between the recognition of an utterance and "done"
ProcessingPcs == {"prompt", "submit", "poll", "download", "select", "fallback", "persist"}

InProcessing == entry = "main" /\ pc \in ProcessingPcs

\* the step of a keyboard interrupt that arrives while a request is processed
UserInterrupts == pc /= "listen" /\ pc' = "exited"

\* an upper bound on the steps a request still has to take
StepsLeft ==
    CASE pc = "prompt" -> POLL_BUDGET + 7
      [] pc = "submit" -> POLL_BUDGET + 6
      [] pc = "poll" -> (POLL_BUDGET - polls) + 5
      [] pc = "download" -> 4
      [] pc = "select" -> 3
      [] pc = "fallback" -> 2
      [] pc = "persist" -> 1
      [] OTHER -> 0

\* C1: in main.py every recognized utterance that is not an exit keyword is
\* processed to the end, unless the user interrupts the program: while it is
\* processed a next step is always possible, every step stays in the pipeline
\* and lowers a bound on the steps left (so "done" is reached within
\* POLL_BUDGET + 7 steps, whatever the provider, the renderer and the log
\* write do); at "done" the outcome is one of
\* REMOTE_VIDEO, LOCAL_VIDEO, TEXT_FALLBACK, and an outcome once set stays
\* until the next request starts.
C1_TerminatesWithOneOutcome ==
    /\ [](InProcessing => ENABLED Processing)
    /\ [][InProcessing => (\/ UserInterrupts
                           \/ (/\ pc' \in ProcessingPcs \cup {"done"}
                               /\ StepsLeft' < StepsLeft
                               /\ StepsLeft' >= 0))]_vars
    /\ [](entry = "main" /\ pc = "done" => outcome \in Outcomes)
    /\ [][(outcome \in Outcomes /\ outcome' /= outcome)
            => (pc \in {"listen", "o_listen"} /\ outcome' = "NONE")]_vars

\* a request whose provider job timed out and whose rendering failed is done
C1_Witness ==
    /\ entry = "main"
    /\ pc = "done"
    /\ attempt = "timed_out"
    /\ outcome = "TEXT_FALLBACK"

\* the ends of an attempt the claim calls definitive
DefinitiveFailures == {"request_error", "request_timeout", "bad_status", "job_failed"}

\* C2: once the provider has failed definitively (exception or refused status
\* on submit, failed/error status on poll) no submit, poll or download is sent
\* for that request, in either entry point; in main.py the failing step leaves
\* the provider with no path and the next step is the fallback renderer.
C2_NoRetryAfterDefinitiveFailure ==
    [][ /\ ((attempt \in DefinitiveFailures /\ req' = req)
              => (submits' = submits /\ polls' <= polls
                  /\ downloads' = downloads /\ attempt' = attempt))
        /\ ((entry = "main" /\ attempt' \in DefinitiveFailures
             /\ attempt \notin DefinitiveFailures)
              => (pc' = "select" /\ video_path' = NoPath))
        /\ ((entry = "main" /\ attempt \in DefinitiveFailures /\ pc = "select")
              => (pc' = "fallback" \/ UserInterrupts)) ]_vars

\* the job was reported failed on a poll and the fallback renderer is next
C2_Witness ==
    /\ pc = "fallback"
    /\ attempt = "job_failed"
    /\ submits = 1
    /\ downloads = 0

\* C3: a poll call that times out does not end the attempt before the budget
\* is spent: the polling loop is left only by its POLL_BUDGET-th pass, and then
\* as timed out.
C3_PollTimeoutsUseWholeBudget ==
    [][ (pc = "poll" /\ last_poll' = "request_timeout" /\ pc' /= "poll")
          => (polls + 1 = POLL_BUDGET /\ attempt' = "timed_out") ]_vars

\* C4: a poll answered with a status other than 200 does not end the attempt:
\* polling goes on while the budget lasts, and the attempt is timed out only
\* when POLL_BUDGET polls were made; a poll reporting success afterwards leads
\* to the download.
C4_Non200PollIsTransient ==
    [][ /\ ((pc = "poll" /\ last_poll' = "non_200")
              => (\/ (polls + 1 < POLL_BUDGET /\ pc' = "poll" /\ polls' = polls + 1
                      /\ attempt' = "polling")
                  \/ (polls + 1 = POLL_BUDGET /\ pc' = "select"
                      /\ attempt' = "timed_out")))
        /\ ((attempt' = "timed_out" /\ attempt /= "timed_out")
              => (pc = "poll" /\ polls + 1 = POLL_BUDGET))
        /\ ((pc = "poll" /\ last_poll = "non_200" /\ last_poll' = "succeeded")
              => (pc' = "download")) ]_vars

\* the last poll but one of the budget was answered with a non-200 status and
\* the attempt is still polling
C4_Witness ==
    /\ pc = "poll"
    /\ attempt = "polling"
    /\ last_poll = "non_200"
    /\ polls = POLL_BUDGET - 1

LocalOnly ==
    /\ entry = "main"
    /\ pc = "done"
    /\ ~PIKA_AVAILABLE
    /\ MOVIEPY_AVAILABLE
    /\ PIL_AVAILABLE

\* the artifact of the request is a complete local video of duration * fps frames
LocalVideoResult ==
    /\ outcome = "LOCAL_VIDEO"
    /\ artifact = make_filename("scene", now)
    /\ artifact \in DOMAIN files
    /\ files[artifact] = LocalContent(DEFAULT_DURATION * FPS)
    /\ log = log_before

TextOnly ==
    /\ entry = "main"
    /\ pc = "done"
    /\ ~PIKA_AVAILABLE
    /\ ~(MOVIEPY_AVAILABLE /\ PIL_AVAILABLE)

\* the text record gained exactly one line, which ends in the recognized text
OneNewLine ==
    /\ Len(log) = Len(log_before) + 1
    /\ SubSeq(log, 1, Len(log_before)) = log_before
    /\ endswith(log[Len(log)], text \o <<"\n">>)

\* C7 as stated: with no provider and a rendering capability missing the
\* request ends as TEXT_FALLBACK with no artifact and one new line in the text
\* record, ending in the recognized text.
C7_TextRecordWhenIncapable ==
    TextOnly => (outcome = "TEXT_FALLBACK" /\ artifact = NoPath /\ OneNewLine)

\* C7 as amended: the same, provided the write of the record succeeds; when it
\* fails the record is unchanged.
C7_TextRecordUnlessWriteFails ==
    /\ TextOnly => (outcome = "TEXT_FALLBACK" /\ artifact = NoPath
                    /\ rendered = "unavailable")
    /\ (TextOnly /\ wrote /= "failed") => (wrote = "ok" /\ OneNewLine)
    /\ (TextOnly /\ wrote = "failed") => (log = log_before)

\* the record was written for a request that Gemini gave a prompt other than
\* the recognized text
C7_Witness ==
    /\ TextOnly
    /\ wrote = "ok"
    /\ scene_prompt = <<"b">>
    /\ log /= <<>>

\* C8: when the write of the text record fails nothing escapes the loop: the
\* request is done with outcome TEXT_FALLBACK and no artifact, the record is
\* unchanged, and the loop goes on.
C8_WriteFailureIsNotFatal ==
    wrote = "failed"
        => /\ pc \in {"done", "listen", "exited"}
           /\ crashed = "none"
           /\ outcome = "TEXT_FALLBACK"
           /\ artifact = NoPath
           /\ log = log_before

\* the write failed and the application is listening again
C8_Witness ==
    /\ wrote = "failed"
    /\ pc = "listen"
    /\ outcome = "TEXT_FALLBACK"

\* C9: no error of a provider call or of the fallback renderer leaves the
\* entry point that drives it.
C9_NoProviderErrorEscapes == crashed \notin {"provider", "renderer"}

\* the prompt of the request under way has been built
PromptBuilt ==
    /\ entry = "main"
    /\ pc \in {"submit", "poll", "download", "select", "fallback", "persist", "done"}

\* C10: the prompt built for a non-empty recognized text is not empty.
C10_PromptNeverEmpty == (PromptBuilt /\ text /= NoText) => scene_prompt /= NoText

\* C11: a provider download that succeeds never writes over the artifact that an
\* earlier successful run left: the file it writes has a name no complete
\* provider video already carries.
C11_DistinctArtifacts ==
    [][ (attempt' = "succeeded" /\ attempt /= "succeeded")
          => ~(video_path' \in DOMAIN files /\ files[video_path'] = RemoteContent) ]_vars

\* C12: a provider whose API key is absent is sent no request, in either entry
\* point: no submit, no poll and no download is made for it.
C12_AbsentKeyDisablesProvider ==
    /\ (entry = "main" /\ ~PIKA_AVAILABLE)
         => (submits = 0 /\ polls = 0 /\ downloads = 0 /\ attempt = "none")
    /\ (entry = "orchestrator" /\ ~HF_KEY)
         => (submits = 0 /\ attempt = "none")

\* C13: in main.py a download that fails (status other than 200, or an error
\* while the file is fetched or written) ends the attempt as failed although
\* the provider had generated the video: the attempt was at "generated" with
\* one download sent, no path is returned, the outcome is never REMOTE_VIDEO,
\* and the next step is the fallback renderer.
C13_DownloadFailureFallsBack ==
    /\ []((entry = "main" /\ attempt = "download_failed")
            => (/\ video_path = NoPath
                /\ downloads = 1
                /\ outcome /= "REMOTE_VIDEO"
                /\ artifact \notin {make_filename("pika_scene", t) : t \in 0..MaxClock + 1}
                /\ pc \notin {"submit", "poll", "download"}))
    /\ [][ /\ ((attempt' = "download_failed" /\ attempt /= "download_failed")
                 => (pc = "download" /\ attempt = "generated" /\ pc' = "select"))
           /\ ((attempt = "download_failed" /\ pc = "select")
                 => (pc' = "fallback" \/ UserInterrupts)) ]_vars

\* the download broke after the file was opened and the request was rendered
\* locally
C13_Witness ==
    /\ pc = "done"
    /\ attempt = "download_failed"
    /\ outcome = "LOCAL_VIDEO"
    /\ req = 1
    /\ \E n \in DOMAIN files : files[n] = PartialContent

\* the work done for a request: a prompt built, a provider called, a rendering
\* made, a file or the text record written
WorkStep ==
    \/ (scene_prompt' /= scene_prompt /\ scene_prompt' /= NoText)
    \/ submits' > submits
    \/ polls' > polls
    \/ downloads' > downloads
    \/ (rendered' /= rendered /\ rendered' /= "no")
    \/ (wrote' /= wrote /\ wrote' /= "no")
    \/ log' /= log
    \/ files' /= files

\* C14: a listen that yields no text (timeout, unintelligible audio, speech
\* API error, any other error, None or the empty string) starts no request:
\* the step changes nothing of the request, of the text record or of the
\* files and control does not enter the pipeline; every step of work is
\* taken for a listen that yielded a non-empty text.
C14_NoTextNoWork ==
    /\ [][ ((pc \in {"listen", "o_listen"} /\ heard' \in ListenFaults)
              \/ (pc = "o_listen" /\ pc' = "o_returned"))
            => (/\ UNCHANGED <<req, request, log, files>>
                /\ pc' \in {"listen", "o_returned", "crashed"}) ]_vars
    /\ [][ WorkStep => (heard = "text" /\ heard' = "text"
                        /\ text /= NoText /\ text' = text) ]_vars
    /\ [](pc \in ProcessingPcs \cup {"o_emotion", "o_generate", "o_hung"}
            => (heard = "text" /\ text /= NoText))

\* the second run of the orchestrator heard nothing it could understand: what
\* the first run left is untouched
C14_Witness ==
    /\ entry = "orchestrator"
    /\ pc = "o_returned"
    /\ heard = "unknown_value"
    /\ req = 1
    /\ outcome = "REMOTE_VIDEO"

\* C15: whatever the emotion classifier does, raise included, the run goes on
\* to the video generation: the step of the classifier ends at the generation
\* and no error of the classifier leaves the run.
C15_EmotionFailureIsNotFatal ==
    [][ (pc = "o_emotion") => (pc' = "o_generate" /\ crashed' = "none") ]_vars

\* C16: in main.py the tiers are taken in order, none skipped and none taken
\* twice. The renderer runs only when the provider is exhausted without a
\* path (not called for want of a key, or called once and ended without one);
\* the text record is written only after the renderer returned False (a
\* capability missing, or an error raised); a provider video that was
\* downloaded makes the outcome REMOTE_VIDEO with the renderer and the text
\* record untouched; and within a request no tier that has acted acts again.
C16_TiersInOrder ==
    /\ []((entry = "main" /\ pc = "fallback") => (rendered = "no" /\ wrote = "no"))
    /\ []((entry = "main" /\ pc = "persist") => (rendered /= "no" /\ wrote = "no"))
    /\ []((entry = "main" /\ (pc = "fallback" \/ rendered /= "no"))
            => (/\ video_path = NoPath
                /\ attempt \notin {"polling", "generated", "succeeded"}
                /\ submits = (IF PIKA_AVAILABLE THEN 1 ELSE 0)
                /\ (attempt = "none") = ~PIKA_AVAILABLE))
    /\ []((pc = "persist" \/ wrote /= "no") => rendered \in {"unavailable", "raised"})
    /\ [](attempt = "succeeded"
            => (/\ rendered = "no"
                /\ wrote = "no"
                /\ log = log_before
                /\ pc \notin {"fallback", "persist"}
                /\ (pc \in {"done", "listen"}
                      => (outcome = "REMOTE_VIDEO" /\ artifact = video_path))))
    /\ [][ (req' = req)
            => (/\ (rendered /= "no"
                      => (rendered' = rendered /\ submits' = submits
                          /\ polls' = polls /\ downloads' = downloads))
                /\ (wrote /= "no"
                      => (wrote' = wrote /\ log' = log /\ files' = files))) ]_vars

\* all three tiers were taken, in order: the job timed out, the rendering
\* raised, the text was written
C16_Witness ==
    /\ pc = "done"
    /\ attempt = "timed_out"
    /\ submits = 1
    /\ rendered = "raised"
    /\ wrote = "ok"
    /\ outcome = "TEXT_FALLBACK"

\* a call to a provider is about to be made or is awaited
CallInFlight == pc \in {"submit", "poll", "download", "o_generate", "o_hung"}

\* C17: a call to a provider never stalls the program: whenever such a call is
\* in flight, the program eventually leaves it.
C17_ProviderCallsReturn == CallInFlight ~> ~CallInFlight

C19_CapabilityCheckFirst ==
    /\ []((entry = "main" /\ rendered /= "no")
            => ((rendered = "unavailable") = ~(MOVIEPY_AVAILABLE /\ PIL_AVAILABLE)))
    /\ [][ (pc = "fallback" /\ ~(MOVIEPY_AVAILABLE /\ PIL_AVAILABLE) /\ ~UserInterrupts)
            => (/\ rendered' = "unavailable"
                /\ files' = files
                /\ artifact' = NoPath
                /\ outcome' = "TEXT_FALLBACK"
                /\ pc' = "persist") ]_vars

\* Pillow is missing, MoviePy is not: the renderer returned at once and
\* nothing is on disk
C19_Witness ==
    /\ pc = "persist"
    /\ rendered = "unavailable"
    /\ MOVIEPY_AVAILABLE
    /\ ~PIL_AVAILABLE
    /\ files = <<>>

\* C20 as stated: a request that is done as TEXT_FALLBACK added exactly one
\* entry to the text record, after the earlier ones; a request done as
\* REMOTE_VIDEO or LOCAL_VIDEO left the record as it was.
C20_OneEntryPerTextFallback ==
    (entry = "main" /\ pc = "done")
        => IF outcome = "TEXT_FALLBACK"
           THEN (Len(log) = Len(log_before) + 1
                 /\ SubSeq(log, 1, Len(log_before)) = log_before)
           ELSE log = log_before

\* C20 as amended: the text record only grows, by one entry at its end and
\* only on the step that writes it; a request done as TEXT_FALLBACK added
\* exactly one entry, "<timestamp>: <text>", unless the write failed, and
\* then none; a request done as REMOTE_VIDEO or LOCAL_VIDEO added none.
C20_AppendOnlyLog ==
    /\ [][ \/ log' = log
           \/ (/\ pc = "persist"
               /\ Len(log') = Len(log) + 1
               /\ SubSeq(log', 1, Len(log)) = log
               /\ log'[Len(log')] = <<ToString(now), ":", " ">> \o text \o <<"\n">>) ]_vars
    /\ []((entry = "main" /\ pc = "done" /\ outcome = "TEXT_FALLBACK" /\ wrote /= "failed")
            => (wrote = "ok"
                /\ Len(log) = Len(log_before) + 1
                /\ SubSeq(log, 1, Len(log_before)) = log_before))
    /\ []((entry = "main" /\ pc = "done" /\ outcome = "TEXT_FALLBACK" /\ wrote = "failed")
            => (log = log_before))
    /\ []((pc = "done" /\ outcome \in {"REMOTE_VIDEO", "LOCAL_VIDEO"})
            => (wrote = "no" /\ log = log_before))
    /\ [](Len(log) <= req)

\* the second request wrote its entry after the entry of the first
C20_Witness ==
    /\ pc = "done"
    /\ req = 2
    /\ outcome = "TEXT_FALLBACK"
    /\ wrote = "ok"
    /\ Len(log) = 2
    /\ log_before = <<log[1]>>

\* C21: a provider attempt that returns no path leaves no file behind: a
\* download step that ends without a path has put nothing on disk (so the
\* file of the renderer, if one follows, is the only file of the request).
C21_NoFileWithoutPath ==
    [][ (pc = "download" /\ attempt' = "download_failed") => (files' = files) ]_vars

\* C22: a poll answered "succeeded" with no video_url neither ends the attempt
\* as a success nor as a failure: no download is started, the loop polls
\* again while the budget lasts, and on the POLL_BUDGET-th pass the attempt
\* ends as timed out, with no path.
C22_SucceededWithoutUrlKeepsPolling ==
    [][ (pc = "poll" /\ last_poll' = "succeeded_no_url")
          => (/\ downloads' = downloads
              /\ files' = files
              /\ \/ (/\ polls + 1 < POLL_BUDGET
                      /\ pc' = "poll"
                      /\ polls' = polls + 1
                      /\ attempt' = "polling")
                 \/ (/\ polls + 1 = POLL_BUDGET
                      /\ pc' = "select"
                      /\ attempt' = "timed_out"
                      /\ video_path' = NoPath)) ]_vars

\* the last poll of the budget was answered "succeeded" with no video_url and
\* the attempt timed out
C22_Witness ==
    /\ pc = "select"
    /\ last_poll = "succeeded_no_url"
    /\ attempt = "timed_out"
    /\ video_path = NoPath
    /\ downloads = 0

\* what an utterance gets done for it: none of it changes on the step
NoWorkOnStep ==
    UNCHANGED <<req, scene_prompt, video_path, attempt, submits, polls, downloads,
                rendered, wrote, outcome, artifact, log, files>>

\* C23 as stated: the loop of main.py ends only on a step of listening (an
\* exit keyword recognized, or a keyboard interrupt), and that step does no
\* work for the utterance in hand.
C23_LoopEndsWithNoWork ==
    [][ (pc' = "exited" /\ pc /= "exited")
          => (pc = "listen" /\ heard' \in {"exit", "interrupt"} /\ NoWorkOnStep) ]_vars

\* C23 as amended: in main.py no failure ends the loop: a listen that fails
\* (timeout, unintelligible audio, speech API error, any other exception) and
\* a text write that fails are followed by listening again, and nothing
\* escapes run(). The loop ends only on an exit keyword, whatever its case
\* (and every utterance that is one ends it), or on a keyboard interrupt. On
\* an exit keyword and on an interrupt that arrives while listening nothing
\* is done for that utterance; an interrupt that arrives while an utterance is
\* processed ends the loop with the work done so far left as it is, and no
\* call, rendering or text write is made after it.
C23_LoopEndsOnlyOnExitOrInterrupt ==
    /\ [](entry = "main" => (crashed = "none" /\ pc /= "crashed"))
    /\ [][ (pc = "listen" /\ heard' \in ListenFaults) => (pc' = "listen") ]_vars
    /\ [][ (pc = "persist" /\ wrote' = "failed") => (pc' = "done") ]_vars
    /\ [][ (pc = "done" /\ ~UserInterrupts) => (pc' = "listen") ]_vars
    /\ [][ (pc = "listen" /\ heard' = "text")
            => (lower(text') \notin ExitKeywords /\ pc' = "prompt") ]_vars
    /\ [][ (pc' = "exited" /\ pc /= "exited")
            => (\/ (/\ pc = "listen"
                    /\ heard' = "exit"
                    /\ lower(text') \in ExitKeywords
                    /\ NoWorkOnStep)
                \/ (/\ pc = "listen"
                    /\ heard' = "interrupt"
                    /\ text' = text
                    /\ NoWorkOnStep)
                \/ (/\ pc \in ProcessingPcs \cup {"done"}
                    /\ heard = "text"
                    /\ UNCHANGED <<heard, req, text, scene_prompt, video_path, attempt,
                                   submits, downloads, rendered, wrote, outcome, artifact,
                                   log>>)) ]_vars
    /\ [][ pc /= "exited" ]_vars

\* after one request was processed the user said "Exit" and the loop ended
C23_Witness ==
    /\ pc = "exited"
    /\ heard = "exit"
    /\ text = <<"E", "x", "i", "t">>
    /\ req = 1
    /\ outcome \in Outcomes

====
